---- MODULE Spec2Model ----
(***************************************************************************)
(* AgroScan: a model of src/main.py.                                       *)
(*                                                                         *)
(* Numbers.  The program works on Python floats; the model uses integers   *)
(* in a fixed unit per quantity: NBR in hundredths (0.1 is 10),            *)
(* precipitation in millimetres, VV backscatter in decibels, NDVI in       *)
(* tenths.  Only order comparisons are made on them, so every case of a    *)
(* threshold test (below, equal, above) is present.                        *)
(*                                                                         *)
(* Python values that may be None are modelled as sets with at most one    *)
(* element: None is {} and the number n is {n}.  A dict is a function      *)
(* whose DOMAIN is the set of its keys, so an absent key and a key holding *)
(* None are different things, as they are for dict.get.                    *)
(***************************************************************************)
EXTENDS Integers, Sequences, FiniteSets, TLC

VARIABLES
    fazendas,           \* Firestore collection 'fazendas': sequence of farm documents (farm_id = index)
    historico,          \* per farm, its 'historico' sub-collection: sequence of analysis documents
    request,            \* the HTTP request being handled, or handled last
    response,           \* the HTTP response returned last (<<>> while a handler runs)
    pc,                 \* position of the running handler ("idle" between requests)
    farm_data,          \* process_single_farm: its argument
    earth_engine,       \* process_single_farm: what the three sources answered in this run
    collected,          \* process_single_farm: precipitation_data, radar_data, optical_data
    consolidated_data,  \* process_single_farm: the dict handed to engine, notifier and history
    prescriptions,      \* process_single_farm: the list generate_prescription returned
    email_sent,         \* process_single_farm: what send_report returned
    result,             \* process_single_farm: the dict it returns
    batch,              \* daily_monitoring: active_farms, loop index, results, counters
    calls               \* collaborators called so far by the running handler, in order

vars == <<fazendas, historico, request, response, pc, farm_data, earth_engine, collected,
          consolidated_data, prescriptions, email_sent, result, batch, calls>>

----------------------------------------------------------------------------
(* Python values *)

None == {}
Some(v) == {v}
Val(o) == CHOOSE v \in o : TRUE

\* dict.get(key, default)
Get(d, key, default) == IF key \in DOMAIN d THEN d[key] ELSE default

\* seq[-n:]
LastN(s, n) == IF Len(s) <= n THEN s ELSE SubSeq(s, Len(s) - n + 1, Len(s))

----------------------------------------------------------------------------
(* PrescriptionEngine thresholds *)

NBR_FIRE_THRESHOLD == 10
PRECIP_WET_THRESHOLD == 20
VV_DRY_THRESHOLD == -14
PRECIP_DRY_THRESHOLD == 10
TREND_WINDOW == 3
MIN_VV_READINGS == 3

FIRE_ALERT == "URGENTE: Inspecao de Incendio/Queimada na area."
NUTRITIONAL_ALERT == "ALERTA NUTRICIONAL: Queda continua de vigor com solo umido."
WATER_STRESS_ALERT == "ALERTA DE ESTRESSE: Queda de vigor associada a falta de chuvas."
IRRIGATION_ALERT == "ACAO AUTOMATIZADA: Solo permanentemente seco."
NORMAL_MESSAGE == "Monitoramento Normal - Sem acoes urgentes requeridas."
\* the Python None a rule returns when it does not fire
NoAlert == "None"

----------------------------------------------------------------------------
(* PrescriptionEngine *)

analyze_fire_risk_le(nbr_value) ==
    IF Val(nbr_value) <= NBR_FIRE_THRESHOLD THEN FIRE_ALERT ELSE NoAlert

analyze_fire_risk(nbr_value) ==
    IF Val(nbr_value) < NBR_FIRE_THRESHOLD THEN FIRE_ALERT ELSE NoAlert

is_declining_ge(recent_values) ==
    \A i \in 1..(Len(recent_values) - 1) : recent_values[i] >= recent_values[i + 1]

is_declining(recent_values) ==
    \A i \in 1..(Len(recent_values) - 1) : recent_values[i] > recent_values[i + 1]

stress_variant_ge(precipitation_7d) ==
    IF precipitation_7d >= PRECIP_WET_THRESHOLD THEN NUTRITIONAL_ALERT ELSE WATER_STRESS_ALERT

stress_variant(precipitation_7d) ==
    IF precipitation_7d > PRECIP_WET_THRESHOLD THEN NUTRITIONAL_ALERT ELSE WATER_STRESS_ALERT

analyze_water_stress(ndvi_series, precipitation_7d) ==
    IF Len(ndvi_series) < TREND_WINDOW THEN NoAlert
    ELSE IF is_declining(LastN(ndvi_series, TREND_WINDOW))
         THEN stress_variant(precipitation_7d)
         ELSE NoAlert

vv_below_threshold_any(vv_values) ==
    \E i \in 1..Len(vv_values) : vv_values[i] < VV_DRY_THRESHOLD

vv_below_threshold(vv_values) ==
    \A i \in 1..Len(vv_values) : vv_values[i] < VV_DRY_THRESHOLD

analyze_irrigation_need(vv_values, precipitation_7d) ==
    IF Len(vv_values) < MIN_VV_READINGS THEN NoAlert
    ELSE IF vv_below_threshold(vv_values) /\ precipitation_7d < PRECIP_DRY_THRESHOLD
         THEN IRRIGATION_ALERT
         ELSE NoAlert

\* `if alert: prescriptions.append(alert)`
AppendIf(list, alert) == IF alert # NoAlert THEN Append(list, alert) ELSE list

\* `if not prescriptions: prescriptions.append(normal)`
normal_fallback_always(list) == Append(list, NORMAL_MESSAGE)

normal_fallback(list) == IF list = <<>> THEN Append(list, NORMAL_MESSAGE) ELSE list

\* the rules as an if / elif chain: the first alert ends the evaluation
generate_prescription_first_match(data) ==
    LET fire_alert == analyze_fire_risk(Get(data, "nbr_mean", Some(0)))
        stress_alert == analyze_water_stress(Get(data, "ndvi_series", <<>>),
                                             Get(data, "precipitation_sum_7d", 0))
        irrigation_alert == analyze_irrigation_need(Get(data, "recent_vv_values", <<>>),
                                                    Get(data, "precipitation_sum_7d", 0))
    IN  IF fire_alert # NoAlert THEN <<fire_alert>>
        ELSE IF stress_alert # NoAlert THEN <<stress_alert>>
        ELSE IF irrigation_alert # NoAlert THEN <<irrigation_alert>>
        ELSE <<NORMAL_MESSAGE>>

generate_prescription(data) ==
    LET fire_alert == analyze_fire_risk(Get(data, "nbr_mean", Some(0)))
        stress_alert == analyze_water_stress(Get(data, "ndvi_series", <<>>),
                                             Get(data, "precipitation_sum_7d", 0))
        irrigation_alert == analyze_irrigation_need(Get(data, "recent_vv_values", <<>>),
                                                    Get(data, "precipitation_sum_7d", 0))
    IN  normal_fallback(AppendIf(AppendIf(AppendIf(<<>>, fire_alert), stress_alert),
                                 irrigation_alert))

----------------------------------------------------------------------------
(* The engine on its own: every well-typed record, keys present or absent *)

MaxNdviLen == 4
MaxVvLen == 3

NbrValues == {NBR_FIRE_THRESHOLD - 1, NBR_FIRE_THRESHOLD, NBR_FIRE_THRESHOLD + 1}
PrecipValues == {PRECIP_DRY_THRESHOLD - 1, PRECIP_DRY_THRESHOLD,
                 PRECIP_WET_THRESHOLD, PRECIP_WET_THRESHOLD + 1}
NdviValues == {3, 5, 7}
VvValues == {VV_DRY_THRESHOLD - 1, VV_DRY_THRESHOLD}

SeqsUpTo(S, n) == UNION {[1..k -> S] : k \in 0..n}

EngineKeys == {"nbr_mean", "ndvi_series", "precipitation_sum_7d", "recent_vv_values"}

\* the record with the fields of `full` under the keys K
Restrict(full, K) == [k \in K |-> full[k]]

InitEngine ==
    /\ fazendas = <<>>
    /\ historico = <<>>
    /\ request = [fn |-> "generate_prescription"]
    /\ response = <<>>
    /\ pc = "call"
    /\ farm_data = <<>>
    /\ earth_engine = <<>>
    /\ collected = <<>>
    /\ \E nbr \in NbrValues, precip \in PrecipValues,
          ndvi \in SeqsUpTo(NdviValues, MaxNdviLen), vv \in SeqsUpTo(VvValues, MaxVvLen),
          K \in SUBSET EngineKeys :
            consolidated_data = Restrict([nbr_mean |-> Some(nbr),
                                          ndvi_series |-> ndvi,
                                          precipitation_sum_7d |-> precip,
                                          recent_vv_values |-> vv], K)
    /\ prescriptions = <<>>
    /\ email_sent = FALSE
    /\ result = <<>>
    /\ batch = <<>>
    /\ calls = <<>>

Generate ==
    /\ pc = "call"
    /\ prescriptions' = generate_prescription(consolidated_data)
    /\ pc' = "returned"
    /\ calls' = Append(calls, "generate_prescription")
    /\ UNCHANGED <<fazendas, historico, request, response, farm_data, earth_engine, collected,
                   consolidated_data, email_sent, result, batch>>

NextEngine == Generate

SpecEngine == InitEngine /\ [][NextEngine]_vars

----------------------------------------------------------------------------
(* FirestoreManager *)

\* registrations stop at MaxFarms farms; a batch starts only while every farm has
\* fewer than MaxAnalyses history documents
MaxFarms == 2
MaxAnalyses == 1

\* the document save_farm writes (the two timestamps carry no value here:
\* ultima_analise is None until an analysis is saved, then "now")
FarmDocument(email, farm_name, coordinates) ==
    [email |-> email,
     nome_fazenda |-> farm_name,
     coordinates |-> coordinates,
     status |-> "active",
     ultima_analise |-> None,
     total_analises |-> 0]

\* get_active_farms: the active documents, each with its id added
ActiveIds == {id \in 1..Len(fazendas) : fazendas[id].status = "active"}

RECURSIVE ListFarms(_)
ListFarms(id) ==
    IF id > Len(fazendas) THEN <<>>
    ELSE IF id \in ActiveIds
         THEN <<[k \in DOMAIN fazendas[id] \cup {"farm_id"} |->
                   IF k = "farm_id" THEN id ELSE fazendas[id][k]]>> \o ListFarms(id + 1)
         ELSE ListFarms(id + 1)

get_active_farms(stream_ok) == IF stream_ok THEN ListFarms(1) ELSE <<>>

\* the document save_analysis_result adds to the history; of its four fields
\* (data_analise, dados_earth_engine, prescricoes, email_enviado) the model keeps
\* the flag and the number of prescriptions
AnalysisDocument(analysis_data, prescricoes) ==
    [n_prescricoes |-> Len(prescricoes), email_enviado |-> TRUE]

\* save_analysis_result: add the history document, then update the farm; either
\* write may raise, and the first to raise ends the function with False
HistoricoAfterSave(farm_id, doc, add_ok) ==
    IF add_ok
    THEN [historico EXCEPT ![farm_id] = Append(@, doc)]
    ELSE historico

FazendasAfterSave(farm_id, add_ok, update_ok) ==
    IF add_ok /\ update_ok
    THEN [fazendas EXCEPT ![farm_id].total_analises = @ + 1,
                          ![farm_id].ultima_analise = Some("now")]
    ELSE fazendas

save_analysis_result(add_ok, update_ok) == add_ok /\ update_ok

----------------------------------------------------------------------------
(* AgroDataProcessor: each collector, from what Earth Engine answers *)

NDVI_SERIES_LIMIT == 10
RECENT_VV_LIMIT == 3

ErrorDict == [status |-> "error", error |-> "str(e)"]

Reverse(s) == [i \in 1..Len(s) |-> s[Len(s) + 1 - i]]
FirstN(s, n) == IF Len(s) <= n THEN s ELSE SubSeq(s, 1, n)

\* `x or 0`
OrZero(x) == IF x = None \/ x = Some(0) THEN 0 ELSE Val(x)

\* Earth Engine's answers to one collector.  raises: some call of the collector
\* raised.  A reduction holds a number, or None where the source has no
\* observation; a statistics dict may also lack the key.
PrecipitationAnswers ==
    { [raises |-> TRUE, precip_7d |-> None, precip_30d |-> None],
      [raises |-> FALSE, precip_7d |-> None, precip_30d |-> None],
      [raises |-> FALSE, precip_7d |-> Some(25), precip_30d |-> Some(30)] }

\* passes: the VV mean of each acquisition in the window, oldest first
RadarAnswers ==
    { [raises |-> TRUE, radar_stats |-> <<>>, passes |-> <<>>],
      [raises |-> FALSE, radar_stats |-> [VV |-> None, VH |-> None, RVI |-> None],
       passes |-> <<-15, -13>>],
      [raises |-> FALSE, radar_stats |-> [VV |-> Some(-15), VH |-> Some(-20), RVI |-> Some(2)],
       passes |-> <<-13, -15, -16, -17>>] }

\* scenes: the NDVI of each qualifying scene in the window, oldest first
OpticalAnswers ==
    { [raises |-> TRUE, optical_stats |-> <<>>, scenes |-> <<>>],
      [raises |-> FALSE, optical_stats |-> [NDVI |-> None, NBR |-> None], scenes |-> <<>>],
      [raises |-> FALSE, optical_stats |-> [NDVI |-> Some(6), NBR |-> Some(50)],
       scenes |-> <<3, 5, 7>>],
      [raises |-> FALSE, optical_stats |-> [NDVI |-> Some(4), NBR |-> Some(5)],
       scenes |-> <<3, 7, 5, 3>>] }

\* the answers of a healthy source with data, and for the optical source also
\* the answer without any observation
SteadyPrecipitationAnswers ==
    {a \in PrecipitationAnswers : ~a.raises /\ a.precip_7d # None}
SteadyRadarAnswers ==
    {a \in RadarAnswers : ~a.raises /\ "RVI" \in DOMAIN a.radar_stats /\ a.radar_stats.RVI # None}
SteadyOpticalAnswers ==
    {a \in OpticalAnswers : ~a.raises /\ Len(a.scenes) <= 3}

get_precipitation_data(ee) ==
    IF ee.raises THEN ErrorDict
    ELSE [precipitation_sum_7d |-> OrZero(ee.precip_7d),
          precipitation_sum_30d |-> OrZero(ee.precip_30d),
          status |-> "success"]

\* radar_stats.get(key, 0), optical_stats.get(key, 0)
StatOrDefault(d, key) == Get(d, key, Some(0))

\* s1.sort('system:time_start', False).limit(3), one VV mean per image
recent_vv_values(passes) == FirstN(Reverse(passes), RECENT_VV_LIMIT)

get_radar_data(ee) ==
    IF ee.raises THEN ErrorDict
    ELSE [vv_mean |-> StatOrDefault(ee.radar_stats, "VV"),
          vh_mean |-> StatOrDefault(ee.radar_stats, "VH"),
          rvi_mean |-> StatOrDefault(ee.radar_stats, "RVI"),
          recent_vv_values |-> recent_vv_values(ee.passes),
          status |-> "success"]

\* ndvi_collection.sort('system:time_start', False).limit(10), reduced to a list
ndvi_list(scenes) == FirstN(Reverse(scenes), NDVI_SERIES_LIMIT)

get_optical_data(ee) ==
    IF ee.raises THEN ErrorDict
    ELSE [ndvi_mean |-> StatOrDefault(ee.optical_stats, "NDVI"),
          nbr_mean |-> StatOrDefault(ee.optical_stats, "NBR"),
          ndvi_series |-> ndvi_list(ee.scenes),
          status |-> "success"]

----------------------------------------------------------------------------
(* process_single_farm *)

\* the consolidation with a default for nbr_mean that is not below the fire threshold
Consolidate_neutral_nbr(precipitation_data, radar_data, optical_data) ==
    [precipitation_sum_7d |-> Get(precipitation_data, "precipitation_sum_7d", 0),
     precipitation_sum_30d |-> Get(precipitation_data, "precipitation_sum_30d", 0),
     ndvi_mean |-> Get(optical_data, "ndvi_mean", Some(0)),
     nbr_mean |-> Get(optical_data, "nbr_mean", Some(NBR_FIRE_THRESHOLD)),
     rvi_mean |-> Get(radar_data, "rvi_mean", Some(0)),
     ndvi_series |-> Get(optical_data, "ndvi_series", <<>>),
     recent_vv_values |-> Get(radar_data, "recent_vv_values", <<>>)]

Consolidate(precipitation_data, radar_data, optical_data) ==
    [precipitation_sum_7d |-> Get(precipitation_data, "precipitation_sum_7d", 0),
     precipitation_sum_30d |-> Get(precipitation_data, "precipitation_sum_30d", 0),
     ndvi_mean |-> Get(optical_data, "ndvi_mean", Some(0)),
     nbr_mean |-> Get(optical_data, "nbr_mean", Some(0)),
     rvi_mean |-> Get(radar_data, "rvi_mean", Some(0)),
     ndvi_series |-> Get(optical_data, "ndvi_series", <<>>),
     recent_vv_values |-> Get(radar_data, "recent_vv_values", <<>>)]

\* analyze_fire_risk compares nbr_value with 0.1: a TypeError when it is None
EngineRaises(data) == Get(data, "nbr_mean", Some(0)) = None

\* _generate_email_body formats ndvi, nbr and rvi with :.3f: a TypeError when one
\* is None, which send_report catches and answers False
BodyRaises(data) ==
    \E k \in {"ndvi_mean", "nbr_mean", "rvi_mean"} : Get(data, k, Some(0)) = None

send_report(data, smtp_ok) == ~BodyRaises(data) /\ smtp_ok

\* the except clause letting the exception through instead of answering
ErrorResult_reraise(farm, message) ==
    [farm_id |-> Get(farm, "farm_id", "unknown"),
     farm_name |-> Get(farm, "nome_fazenda", "unknown"),
     status |-> "raised",
     error |-> message]

ErrorResult(farm, message) ==
    [farm_id |-> Get(farm, "farm_id", "unknown"),
     farm_name |-> Get(farm, "nome_fazenda", "unknown"),
     status |-> "error",
     error |-> message]

SuccessResult_sent_needs_saved(farm, sent, saved, prescricoes, coll) ==
    [farm_id |-> farm.farm_id,
     farm_name |-> farm.nome_fazenda,
     status |-> "success",
     email_sent |-> sent /\ saved,
     analysis_saved |-> saved,
     prescriptions |-> prescricoes,
     data_processed |->
        [precipitation |-> Get(coll.precipitation_data, "status", "") = "success",
         radar |-> Get(coll.radar_data, "status", "") = "success",
         optical |-> Get(coll.optical_data, "status", "") = "success"]]

SuccessResult(farm, sent, saved, prescricoes, coll) ==
    [farm_id |-> farm.farm_id,
     farm_name |-> farm.nome_fazenda,
     status |-> "success",
     email_sent |-> sent,
     analysis_saved |-> saved,
     prescriptions |-> prescricoes,
     data_processed |->
        [precipitation |-> Get(coll.precipitation_data, "status", "") = "success",
         radar |-> Get(coll.radar_data, "status", "") = "success",
         optical |-> Get(coll.optical_data, "status", "") = "success"]]

\* ee.Geometry.Polygon(coordinates): a ring of at least 3 vertices is built; for
\* fewer the library may raise or may build a degenerate geometry
GeometryMayRaise(coordinates) == Len(coordinates) < 3

ClearLocals ==
    /\ farm_data' = <<>>
    /\ earth_engine' = <<>>
    /\ collected' = <<>>
    /\ consolidated_data' = <<>>
    /\ prescriptions' = <<>>
    /\ email_sent' = FALSE
    /\ result' = <<>>

\* lines 476-488: read the farm record, build the geometry and the processor
PsfGeometry(raises) ==
    /\ pc = "psf_geometry"
    /\ raises => GeometryMayRaise(farm_data.coordinates)
    /\ calls' = Append(calls, "Geometry.Polygon")
    /\ IF raises
       THEN /\ result' = ErrorResult(farm_data, "geometry")
            /\ pc' = "psf_return"
       ELSE /\ pc' = "psf_collect"
            /\ UNCHANGED result
    /\ UNCHANGED <<fazendas, historico, request, response, farm_data, earth_engine, collected,
                   consolidated_data, prescriptions, email_sent, batch>>

\* lines 490-504: the three collectors, then the consolidated record
PsfCollect(p, r, o) ==
    /\ pc = "psf_collect"
    /\ calls' = calls \o <<"get_precipitation_data", "get_radar_data", "get_optical_data">>
    /\ earth_engine' = [precipitation |-> p, radar |-> r, optical |-> o]
    /\ collected' = [precipitation_data |-> get_precipitation_data(p),
                     radar_data |-> get_radar_data(r),
                     optical_data |-> get_optical_data(o)]
    /\ consolidated_data' = Consolidate(collected'.precipitation_data,
                                        collected'.radar_data,
                                        collected'.optical_data)
    /\ pc' = "psf_prescribe"
    /\ UNCHANGED <<fazendas, historico, request, response, farm_data,
                   prescriptions, email_sent, result, batch>>

\* line 507
PsfPrescribe ==
    /\ pc = "psf_prescribe"
    /\ calls' = Append(calls, "generate_prescription")
    /\ IF EngineRaises(consolidated_data)
       THEN /\ result' = ErrorResult(farm_data, "TypeError")
            /\ pc' = "psf_return"
            /\ UNCHANGED prescriptions
       ELSE /\ prescriptions' = generate_prescription(consolidated_data)
            /\ pc' = "psf_send"
            /\ UNCHANGED result
    /\ UNCHANGED <<fazendas, historico, request, response, farm_data, earth_engine, collected,
                   consolidated_data, email_sent, batch>>

\* lines 509-511
PsfSend(smtp_ok) ==
    /\ pc = "psf_send"
    /\ calls' = Append(calls, "send_report")
    /\ email_sent' = send_report(consolidated_data, smtp_ok)
    /\ pc' = "psf_save"
    /\ UNCHANGED <<fazendas, historico, request, response, farm_data, earth_engine, collected,
                   consolidated_data, prescriptions, result, batch>>

\* lines 513-528
PsfSave(add_ok, update_ok) ==
    /\ pc = "psf_save"
    /\ ~add_ok => update_ok        \* once add has raised, update is not reached
    /\ calls' = Append(calls, "save_analysis_result")
    /\ historico' = HistoricoAfterSave(farm_data.farm_id,
                        AnalysisDocument(consolidated_data, prescriptions), add_ok)
    /\ fazendas' = FazendasAfterSave(farm_data.farm_id, add_ok, update_ok)
    /\ result' = SuccessResult(farm_data, email_sent,
                               save_analysis_result(add_ok, update_ok),
                               prescriptions, collected)
    /\ pc' = "psf_return"
    /\ UNCHANGED <<request, response, farm_data, earth_engine, collected, consolidated_data,
                   prescriptions, email_sent, batch>>

----------------------------------------------------------------------------
(* agroscan_monitor *)

Polygon(n) == [i \in 1..n |-> i]

\* rings sent by clients: empty, degenerate (2 vertices), a triangle
VertexCounts == {0, 2, 3}

\* request.get_json(): None, or the JSON object
Bodies ==
    {None} \cup
    { Some([k \in K |-> full[k]]) :
        full \in [email : {"", "dono@fazenda.com"},
                  nome_fazenda : {"", "Fazenda Exemplo"},
                  coordinates : {Polygon(n) : n \in VertexCounts}],
        K \in SUBSET {"email", "nome_fazenda", "coordinates"} }

\* `not request_json`
NoData(body) == body = None \/ DOMAIN Val(body) = {}

Falsy_absent_only(json, key) == key \notin DOMAIN json

\* request_json.get(key) is falsy: the key is absent, or holds "" or []
Falsy(json, key) ==
    \/ key \notin DOMAIN json
    \/ json[key] = (IF key = "coordinates" THEN <<>> ELSE "")

\* `not all([email, farm_name, coordinates])`
Incomplete(json) ==
    Falsy(json, "email") \/ Falsy(json, "nome_fazenda") \/ Falsy(json, "coordinates")

AgroscanMonitor(body, save_ok) ==
    /\ pc = "idle"
    /\ ~save_ok => ~NoData(body) /\ ~Incomplete(Val(body))
    /\ request' = [fn |-> "agroscan_monitor", json |-> body]
    /\ batch' = <<>>
    /\ IF NoData(body)
       THEN /\ response' = [code |-> 400, error |-> "Dados nao fornecidos"]
            /\ calls' = <<>>
            /\ pc' = "idle"
            /\ ClearLocals
            /\ UNCHANGED <<fazendas, historico>>
       ELSE IF Incomplete(Val(body))
       THEN /\ response' = [code |-> 400, error |-> "Dados incompletos"]
            /\ calls' = <<>>
            /\ pc' = "idle"
            /\ ClearLocals
            /\ UNCHANGED <<fazendas, historico>>
       ELSE /\ Len(fazendas) < MaxFarms
            /\ calls' = <<"save_farm">>
            /\ IF save_ok
               THEN /\ fazendas' = Append(fazendas,
                          FarmDocument(Val(body).email, Val(body).nome_fazenda,
                                       Val(body).coordinates))
                    /\ historico' = Append(historico, <<>>)
                    /\ farm_data' = [farm_id |-> Len(fazendas) + 1,
                                     email |-> Val(body).email,
                                     nome_fazenda |-> Val(body).nome_fazenda,
                                     coordinates |-> Val(body).coordinates]
                    /\ response' = <<>>
                    /\ pc' = "psf_geometry"
                    /\ UNCHANGED <<earth_engine, collected, consolidated_data, prescriptions,
                                   email_sent, result>>
               ELSE /\ response' = [code |-> 500,
                                    error |-> "Erro ao salvar fazenda no banco de dados"]
                    /\ pc' = "idle"
                    /\ ClearLocals
                    /\ UNCHANGED <<fazendas, historico>>

\* lines 580-589
AgroscanRespond ==
    /\ pc = "psf_return"
    /\ request.fn = "agroscan_monitor"
    /\ response' = [code |-> 200, status |-> "success",
                    farm_id |-> farm_data.farm_id, analysis_result |-> result]
    /\ pc' = "idle"
    /\ ClearLocals
    /\ UNCHANGED <<fazendas, historico, request, batch, calls>>

----------------------------------------------------------------------------
(* daily_monitoring *)

\* lines 603-623
DailyMonitoring(stream_ok) ==
    /\ pc = "idle"
    /\ \A id \in 1..Len(historico) : Len(historico[id]) < MaxAnalyses
    /\ request' = [fn |-> "daily_monitoring"]
    /\ calls' = <<"get_active_farms">>
    /\ ClearLocals
    /\ LET active_farms == get_active_farms(stream_ok)
       IN  IF active_farms = <<>>
           THEN /\ response' = [code |-> 200, status |-> "success", farms_processed |-> 0]
                /\ batch' = <<>>
                /\ pc' = "idle"
           ELSE /\ response' = <<>>
                /\ batch' = [active_farms |-> active_farms, i |-> 1, results |-> <<>>,
                             successful_count |-> 0, error_count |-> 0]
                /\ pc' = "daily_loop"
    /\ UNCHANGED <<fazendas, historico>>

\* line 625-627: the loop takes the next farm and calls process_single_farm
DailyNextFarm ==
    /\ pc = "daily_loop"
    /\ batch.i <= Len(batch.active_farms)
    /\ farm_data' = batch.active_farms[batch.i]
    /\ pc' = "psf_geometry"
    /\ UNCHANGED <<fazendas, historico, request, response, earth_engine, collected, consolidated_data,
                   prescriptions, email_sent, result, batch, calls>>

\* what one turn of the loop does with the result (lines 628-634)
RecordResult_stop_on_error(b, res) ==
    IF res.status = "success"
    THEN [b EXCEPT !.results = Append(@, res), !.successful_count = @ + 1, !.i = @ + 1]
    ELSE [b EXCEPT !.results = Append(@, res), !.error_count = @ + 1,
                   !.i = Len(b.active_farms) + 1]

\* the error branch raising after its own count, so that the except clause of
\* the loop counts and appends the farm a second time
RecordResult_count_error_twice(b, res) ==
    IF res.status = "success"
    THEN [b EXCEPT !.results = Append(@, res), !.successful_count = @ + 1, !.i = @ + 1]
    ELSE [b EXCEPT !.results = Append(Append(@, res), res), !.error_count = @ + 2,
                   !.i = @ + 1]

RecordResult(b, res) ==
    IF res.status = "success"
    THEN [b EXCEPT !.results = Append(@, res), !.successful_count = @ + 1, !.i = @ + 1]
    ELSE [b EXCEPT !.results = Append(@, res), !.error_count = @ + 1, !.i = @ + 1]

DailyRecordResult ==
    /\ pc = "psf_return"
    /\ request.fn = "daily_monitoring"
    /\ batch' = RecordResult(batch, result)
    /\ pc' = "daily_loop"
    /\ ClearLocals
    /\ UNCHANGED <<fazendas, historico, request, response, calls>>

\* lines 646-659
DailySummary ==
    /\ pc = "daily_loop"
    /\ batch.i > Len(batch.active_farms)
    /\ response' = [code |-> 200, status |-> "success",
                    total_farms |-> Len(batch.active_farms),
                    successful_analyses |-> batch.successful_count,
                    error_analyses |-> batch.error_count,
                    results |-> batch.results]
    /\ batch' = <<>>
    /\ pc' = "idle"
    /\ UNCHANGED <<fazendas, historico, request, farm_data, earth_engine, collected, consolidated_data,
                   prescriptions, email_sent, result, calls>>

----------------------------------------------------------------------------
(* The service *)

Init ==
    /\ fazendas = <<>>
    /\ historico = <<>>
    /\ request = [fn |-> "none"]
    /\ response = <<>>
    /\ pc = "idle"
    /\ farm_data = <<>>
    /\ earth_engine = <<>>
    /\ collected = <<>>
    /\ consolidated_data = <<>>
    /\ prescriptions = <<>>
    /\ email_sent = FALSE
    /\ result = <<>>
    /\ batch = <<>>
    /\ calls = <<>>

\* Both handlers, one request at a time, over the steady answers
Next ==
    \/ \E body \in Bodies, save_ok \in BOOLEAN : AgroscanMonitor(body, save_ok)
    \/ AgroscanRespond
    \/ \E stream_ok \in BOOLEAN : DailyMonitoring(stream_ok)
    \/ DailyNextFarm
    \/ DailyRecordResult
    \/ DailySummary
    \/ \E raises \in BOOLEAN : PsfGeometry(raises)
    \/ \E p \in SteadyPrecipitationAnswers, r \in SteadyRadarAnswers,
          o \in SteadyOpticalAnswers : PsfCollect(p, r, o)
    \/ PsfPrescribe
    \/ \E smtp_ok \in BOOLEAN : PsfSend(smtp_ok)
    \/ \E add_ok, update_ok \in BOOLEAN : PsfSave(add_ok, update_ok)

Spec == Init /\ [][Next]_vars

\* Registration and its first analysis, over every answer of the three sources
NextAnalysis ==
    \/ \E body \in Bodies, save_ok \in BOOLEAN : AgroscanMonitor(body, save_ok)
    \/ AgroscanRespond
    \/ \E raises \in BOOLEAN : PsfGeometry(raises)
    \/ \E p \in PrecipitationAnswers, r \in RadarAnswers, o \in OpticalAnswers :
          PsfCollect(p, r, o)
    \/ PsfPrescribe
    \/ \E smtp_ok \in BOOLEAN : PsfSend(smtp_ok)
    \/ \E add_ok, update_ok \in BOOLEAN : PsfSave(add_ok, update_ok)

SpecAnalysis == Init /\ [][NextAnalysis]_vars

----------------------------------------------------------------------------
(* What the rules are stated to be, written from the rule table alone *)

Range(s) == {s[i] : i \in 1..Len(s)}
Count(s, x) == Cardinality({i \in 1..Len(s) : s[i] = x})

InNbr == Val(Get(consolidated_data, "nbr_mean", Some(0)))
InNdvi == Get(consolidated_data, "ndvi_series", <<>>)
InPrecip7 == Get(consolidated_data, "precipitation_sum_7d", 0)
InVv == Get(consolidated_data, "recent_vv_values", <<>>)

FireCondition == InNbr < 10
TrendCondition ==
    /\ Len(InNdvi) >= 3
    /\ InNdvi[Len(InNdvi) - 2] > InNdvi[Len(InNdvi) - 1]
    /\ InNdvi[Len(InNdvi) - 1] > InNdvi[Len(InNdvi)]
IrrigationCondition ==
    /\ Len(InVv) >= 3
    /\ \A i \in 1..Len(InVv) : InVv[i] < -14
    /\ InPrecip7 < 10

Alerts == {FIRE_ALERT, NUTRITIONAL_ALERT, WATER_STRESS_ALERT, IRRIGATION_ALERT}
Returned == pc = "returned"

\* C1: generate_prescription never returns an empty list; when no rule fires the
\* list is exactly the one normal message; the normal message never stands beside
\* an alert.
C1_NeverEmptyNormalAlone ==
    Returned =>
        /\ Len(prescriptions) >= 1
        /\ (~FireCondition /\ ~TrendCondition /\ ~IrrigationCondition)
              => prescriptions = <<NORMAL_MESSAGE>>
        /\ NORMAL_MESSAGE \in Range(prescriptions)
              => Range(prescriptions) \cap Alerts = {}

C1_Witness ==
    /\ Returned
    /\ ~FireCondition /\ ~TrendCondition /\ ~IrrigationCondition
    /\ Len(InNdvi) >= 3 /\ Len(InVv) >= 3
    /\ prescriptions = <<NORMAL_MESSAGE>>

\* C2: the fire-risk prescription is in the output exactly when nbr_mean < 0.1,
\* whatever the other fields are and whether or not the other rules fire.
C2_FireIffNbrBelow ==
    Returned => (FIRE_ALERT \in Range(prescriptions) <=> InNbr < 10)

C2_Witness ==
    /\ Returned
    /\ "nbr_mean" \in DOMAIN consolidated_data
    /\ InNbr < 10
    /\ TrendCondition /\ IrrigationCondition
    /\ FIRE_ALERT \in Range(prescriptions)
    /\ Len(prescriptions) = 3

StressFired == Range(prescriptions) \cap {NUTRITIONAL_ALERT, WATER_STRESS_ALERT} # {}

\* C3: the stress rule fires exactly when ndvi_series has at least 3 entries and
\* its last 3 entries are strictly decreasing pairwise; never for length 0, 1, 2,
\* never when two consecutive entries among the last 3 are equal.
C3_StressIffLast3Decreasing ==
    Returned =>
        /\ StressFired <=> TrendCondition
        /\ Len(InNdvi) < 3 => ~StressFired
        /\ (/\ Len(InNdvi) >= 3
            /\ \/ InNdvi[Len(InNdvi) - 2] = InNdvi[Len(InNdvi) - 1]
               \/ InNdvi[Len(InNdvi) - 1] = InNdvi[Len(InNdvi)]) => ~StressFired

C3_Witness ==
    /\ Returned
    /\ InNdvi = <<3, 7, 5, 3>>
    /\ StressFired

\* C4: when the declining trend is detected exactly one stress alert is emitted:
\* the nutritional variant when precipitation_7d > 20, the water-stress variant
\* when precipitation_7d <= 20 (20 included); never both.
C4_StressVariantByPrecipitation ==
    (Returned /\ TrendCondition) =>
        /\ Count(prescriptions, NUTRITIONAL_ALERT)
             + Count(prescriptions, WATER_STRESS_ALERT) = 1
        /\ InPrecip7 > 20 => NUTRITIONAL_ALERT \in Range(prescriptions)
        /\ InPrecip7 <= 20 => WATER_STRESS_ALERT \in Range(prescriptions)

C4_Witness ==
    /\ Returned
    /\ TrendCondition
    /\ InPrecip7 = 20
    /\ WATER_STRESS_ALERT \in Range(prescriptions)
    /\ NUTRITIONAL_ALERT \notin Range(prescriptions)

\* C5: the irrigation prescription fires exactly when recent_vv_values has at
\* least 3 entries, every entry is strictly below -14 and precipitation_7d is
\* strictly below 10; a shorter series gives no alert (and a result all the
\* same), and one entry at -14 or above suppresses it.
C5_IrrigationIffAllDryAndNoRain ==
    Returned =>
        /\ IRRIGATION_ALERT \in Range(prescriptions) <=> IrrigationCondition
        /\ Len(InVv) < 3 =>
              (IRRIGATION_ALERT \notin Range(prescriptions) /\ Len(prescriptions) >= 1)
        /\ (\E i \in 1..Len(InVv) : InVv[i] >= -14)
              => IRRIGATION_ALERT \notin Range(prescriptions)

C5_Witness ==
    /\ Returned
    /\ InVv = <<-15, -15, -15>>
    /\ InPrecip7 = 9
    /\ IRRIGATION_ALERT \in Range(prescriptions)

----------------------------------------------------------------------------
(* The consolidated record *)

\* the keys of a MetricsRecord, under the names the code gives them
MetricsKeys == {"precipitation_sum_7d", "precipitation_sum_30d", "ndvi_mean", "nbr_mean",
                "vv_mean", "vh_mean", "rvi_mean", "ndvi_series", "recent_vv_values"}
ScalarKeys == {"ndvi_mean", "nbr_mean", "vv_mean", "vh_mean", "rvi_mean"}

Consolidated == pc \in {"psf_prescribe", "psf_send", "psf_save"}
Failed(collector) == collected[collector].status = "error"

ZeroFilled(keys) ==
    \A k \in keys \cap DOMAIN consolidated_data :
        consolidated_data[k] = (IF k \in {"ndvi_series", "recent_vv_values"} THEN <<>>
                                ELSE IF k \in ScalarKeys THEN Some(0) ELSE 0)

\* C6: whichever collectors fail, the consolidated record holds every
\* MetricsRecord key, and the fields of each failed collector are zero (empty
\* for the series).
C6_RecordFullyShaped ==
    Consolidated =>
        /\ MetricsKeys \subseteq DOMAIN consolidated_data
        /\ Failed("precipitation_data")
              => ZeroFilled({"precipitation_sum_7d", "precipitation_sum_30d"})
        /\ Failed("radar_data")
              => ZeroFilled({"vv_mean", "vh_mean", "rvi_mean", "recent_vv_values"})
        /\ Failed("optical_data") => ZeroFilled({"ndvi_mean", "nbr_mean", "ndvi_series"})

\* C7: a reduction that is None enters the collector's output as 0, so no scalar
\* field of a collector's output or of the consolidated record is None.
C7_NoNullScalar ==
    Consolidated =>
        /\ \A c \in DOMAIN collected : \A k \in ScalarKeys \cap DOMAIN collected[c] :
              collected[c][k] # None
        /\ \A k \in ScalarKeys \cap DOMAIN consolidated_data : consolidated_data[k] # None

----------------------------------------------------------------------------
(* The batch *)

IsSummary == response # <<>> /\ "results" \in DOMAIN response

\* the summary: one result per listed farm, in listing order
C8_Summary ==
    IsSummary =>
        /\ Len(response.results) = Cardinality(ActiveIds)
        /\ response.total_farms = Cardinality(ActiveIds)
        /\ \A j \in 1..Len(response.results) :
              /\ response.results[j].farm_id = j
              /\ response.results[j].status \in {"success", "error"}

\* one turn of the loop: the farm's own result is appended, nothing else moves
C8_Turn ==
    (pc = "psf_return" /\ request.fn = "daily_monitoring" /\ pc' = "daily_loop") =>
        /\ batch'.results = Append(batch.results, result)
        /\ result.farm_id = batch.active_farms[batch.i].farm_id
        /\ batch'.active_farms = batch.active_farms
        /\ batch'.i = batch.i + 1

\* C8: a batch over N active farms ends with exactly N results in listing order
\* whether or not some farm's analysis fails; each turn of the loop appends that
\* farm's own result (status 'error' when its analysis failed) and leaves the
\* earlier entries and the list of farms as they are.
C8_BatchSurvivesFarmFailure == []C8_Summary /\ [][C8_Turn]_vars

C8_Witness ==
    /\ IsSummary
    /\ response.total_farms = 2
    /\ response.results[1].status = "error"
    /\ response.results[2].status = "success"

----------------------------------------------------------------------------
(* Registration *)

IsRegistration == request.fn = "agroscan_monitor"
Collectors == {"get_precipitation_data", "get_radar_data", "get_optical_data"}

Degenerate ==
    /\ IsRegistration
    /\ request.json # None
    /\ "coordinates" \in DOMAIN Val(request.json)
    /\ Len(Val(request.json).coordinates) < 3

\* C9: a registration whose polygon has fewer than 3 vertices is rejected with a
\* client error, stores no farm and invokes no collector.
C9_DegeneratePolygonRejected ==
    Degenerate =>
        /\ "save_farm" \notin Range(calls)
        /\ Range(calls) \cap Collectors = {}
        /\ response # <<>> => response.code = 400

Malformed(req) ==
    /\ req.fn = "agroscan_monitor"
    /\ \/ req.json = None
       \/ \E k \in {"email", "nome_fazenda", "coordinates"} :
             \/ k \notin DOMAIN Val(req.json)
             \/ Val(req.json)[k] = (IF k = "coordinates" THEN <<>> ELSE "")

\* the answer, and the calls made, once such a request has been handled
C10_Answer ==
    Malformed(request) =>
        /\ pc = "idle"
        /\ response.code = 400
        /\ calls = <<>>

\* the step that handles such a request
C10_Step ==
    (pc = "idle" /\ Malformed(request')) => (fazendas' = fazendas /\ historico' = historico)

\* C10: a registration without a body, or with contact address, farm name or
\* polygon absent or empty, is answered 400 with save_farm and every collector
\* uncalled, and leaves the registry and every history as they were.
C10_MalformedRejectedUntouched == []C10_Answer /\ [][C10_Step]_vars

C10_Witness ==
    /\ Malformed(request)
    /\ request.json # None
    /\ DOMAIN Val(request.json) = {"email", "nome_fazenda", "coordinates"}
    /\ response.code = 400
    /\ Len(fazendas) = 1
    /\ Len(historico[1]) = 1

----------------------------------------------------------------------------
(* The two side effects of a run *)

Succeeded == pc = "psf_return" /\ result.status = "success"

\* how often each side effect has been called at each position of the run
C11_Once ==
    /\ pc = "psf_send" =>
          Count(calls, "send_report") = 0 /\ Count(calls, "save_analysis_result") = 0
    /\ pc = "psf_save" =>
          Count(calls, "send_report") = 1 /\ Count(calls, "save_analysis_result") = 0
    /\ Succeeded =>
          /\ Count(calls, "send_report") = 1 /\ Count(calls, "save_analysis_result") = 1
          /\ {"email_sent", "analysis_saved"} \subseteq DOMAIN result

\* the send, whatever its outcome, is followed by the save and touches no history
C11_SendStep ==
    pc = "psf_send" =>
        /\ pc' = "psf_save"
        /\ email_sent' \in BOOLEAN
        /\ historico' = historico

\* the save, whatever its outcome, ends the run with status 'success', keeps the
\* send's outcome and reports both
C11_SaveStep ==
    pc = "psf_save" =>
        /\ pc' = "psf_return"
        /\ result'.status = "success"
        /\ email_sent' = email_sent
        /\ result'.email_sent = email_sent
        /\ result'.analysis_saved =>
              Len(historico'[farm_data.farm_id]) = Len(historico[farm_data.farm_id]) + 1
        /\ historico' = historico => ~result'.analysis_saved

\* C11: a run that reaches the side effects calls the notification send and the
\* history append once each, whatever the other's outcome: a failed send is
\* followed by the append, a failed append neither prevents nor undoes the send,
\* and the result reports each under its own flag.
C11_SideEffectsIndependent == []C11_Once /\ [][C11_SendStep /\ C11_SaveStep]_vars

C11_Witness ==
    /\ Succeeded
    /\ ~result.email_sent
    /\ result.analysis_saved
    /\ Len(historico[result.farm_id]) = 1

----------------------------------------------------------------------------
(* The failure boundary of a run *)

PsfPositions == {"psf_geometry", "psf_collect", "psf_prescribe", "psf_send", "psf_save"}

\* one more step of the running analysis, whatever the collaborators answer
PsfStep ==
    \/ \E raises \in BOOLEAN : PsfGeometry(raises)
    \/ \E p \in PrecipitationAnswers, r \in RadarAnswers, o \in OpticalAnswers :
          PsfCollect(p, r, o)
    \/ PsfPrescribe
    \/ \E smtp_ok \in BOOLEAN : PsfSend(smtp_ok)
    \/ \E add_ok, update_ok \in BOOLEAN : PsfSave(add_ok, update_ok)

\* C12: process_single_farm never raises to its caller: at every position of a
\* run there is a next step, each collector hands back a dict with status
\* 'success' or 'error', and the run ends with a result for its farm whose status
\* is 'success' or 'error', whichever of geometry, collectors, engine (a None
\* metric at a threshold comparison), notifier and store failed.
C12_NeverRaises ==
    /\ pc \in PsfPositions => ENABLED PsfStep
    /\ Consolidated =>
          \A c \in DOMAIN collected : collected[c].status \in {"success", "error"}
    /\ pc = "psf_return" =>
          /\ result.status \in {"success", "error"}
          /\ result.farm_id = farm_data.farm_id
          /\ result.status = "error" => "error" \in DOMAIN result

C12_Witness ==
    /\ pc = "psf_return"
    /\ result.status = "error"
    /\ "generate_prescription" \in Range(calls)
    /\ Failed("radar_data")
    /\ consolidated_data.nbr_mean = None

----------------------------------------------------------------------------
(* The NDVI series *)

OpticalSucceeded == Consolidated /\ ~Failed("optical_data")

\* the NDVI of the qualifying scenes of this run, oldest first
Scenes == earth_engine.optical.scenes

\* NDVI fell from each of the three most recent scenes to the next
FallingOverTime ==
    /\ Len(Scenes) >= 3
    /\ Scenes[Len(Scenes) - 2] > Scenes[Len(Scenes) - 1]
    /\ Scenes[Len(Scenes) - 1] > Scenes[Len(Scenes)]

\* C13: the ndvi_series of the optical collector is chronological, oldest scene
\* first and newest last, one value per qualifying scene, so the stress rule
\* fires exactly when NDVI fell over the three most recent scenes.
C13_SeriesChronological ==
    OpticalSucceeded =>
        /\ consolidated_data.ndvi_series = Scenes
        /\ pc \in {"psf_send", "psf_save"} => (StressFired <=> FallingOverTime)

----------------------------------------------------------------------------
(* The order of the alerts *)

\* position of an alert in the rule table
Rank(alert) ==
    IF alert = FIRE_ALERT THEN 1
    ELSE IF alert \in {NUTRITIONAL_ALERT, WATER_STRESS_ALERT} THEN 2
    ELSE IF alert = IRRIGATION_ALERT THEN 3
    ELSE 4

\* C14: every call evaluates all three rules, none hiding another: each alert is
\* present exactly when its own condition holds, the output holds at most 3
\* alerts, and they stand in the order fire-risk, stress, irrigation.
C14_AllRulesFixedOrder ==
    Returned =>
        /\ FIRE_ALERT \in Range(prescriptions) <=> FireCondition
        /\ StressFired <=> TrendCondition
        /\ IRRIGATION_ALERT \in Range(prescriptions) <=> IrrigationCondition
        /\ Cardinality({i \in 1..Len(prescriptions) : prescriptions[i] \in Alerts}) <= 3
        /\ Len(prescriptions) <= 3
        /\ \A i, j \in 1..Len(prescriptions) :
              i < j => Rank(prescriptions[i]) < Rank(prescriptions[j])

C14_Witness ==
    /\ Returned
    /\ FireCondition /\ TrendCondition /\ IrrigationCondition
    /\ prescriptions = <<FIRE_ALERT, WATER_STRESS_ALERT, IRRIGATION_ALERT>>

----------------------------------------------------------------------------
(* The history entry *)

\* the step of a run that appends to its farm's history
Appends ==
    /\ pc = "psf_save"
    /\ Len(historico'[farm_data.farm_id]) = Len(historico[farm_data.farm_id]) + 1

LastEntry(h) == h[Len(h)]

\* C15: the notification-sent flag of the history entry a run appends is the
\* outcome of that run's send: true only when send_report returned success, false
\* when the send failed.
C15_FlagIsSendOutcome ==
    [][Appends => LastEntry(historico'[farm_data.farm_id]).email_enviado = email_sent]_vars

----------------------------------------------------------------------------
(* The analysis counter *)

C16_Counter ==
    \A id \in 1..Len(fazendas) : fazendas[id].total_analises = Len(historico[id])

Incremented ==
    fazendas'[farm_data.farm_id].total_analises = fazendas[farm_data.farm_id].total_analises + 1

C16_Return ==
    pc = "psf_save" => (result'.analysis_saved <=> (Appends /\ Incremented))

\* C16: whatever registrations and analysis runs have happened and whichever
\* store writes failed, each farm's total_analises is the number of entries of
\* its history, and save_analysis_result returns true exactly when the entry was
\* appended and the counter incremented.
C16_CounterIsHistoryLength == []C16_Counter /\ [][C16_Return]_vars

----------------------------------------------------------------------------
(* The counts of a batch *)

C17_Witness ==
    /\ IsSummary
    /\ response.total_farms = 2
    /\ response.successful_analyses = 1
    /\ response.error_analyses = 1
    /\ response.results[1].status = "success"
    /\ response.results[2].status = "error"

\* C17: when a batch completes, successful_analyses + error_analyses equals
\* total_farms and the length of results, successful_analyses is the number of
\* results with status 'success', and each active farm has exactly one result;
\* while the loop runs, the two counters add up to the results so far.
C17_CountsAddUp ==
    /\ pc = "daily_loop" =>
          /\ batch.successful_count + batch.error_count = Len(batch.results)
          /\ Len(batch.results) = batch.i - 1
    /\ IsSummary =>
          /\ response.successful_analyses + response.error_analyses = response.total_farms
          /\ response.total_farms = Len(response.results)
          /\ response.successful_analyses =
                Cardinality({j \in 1..Len(response.results) :
                                response.results[j].status = "success"})
          /\ \A id \in ActiveIds :
                Cardinality({j \in 1..Len(response.results) :
                                response.results[j].farm_id = id}) = 1
          /\ \A j \in 1..Len(response.results) : response.results[j].farm_id \in ActiveIds

----------------------------------------------------------------------------
(* A run without optical data *)

CollectorsRan == collected # <<>>
OpticalFailed == CollectorsRan /\ Failed("optical_data")
AllFailed ==
    /\ CollectorsRan
    /\ Failed("precipitation_data") /\ Failed("radar_data") /\ Failed("optical_data")

C18_Witness ==
    /\ Succeeded
    /\ AllFailed
    /\ result.prescriptions = <<FIRE_ALERT>>
    /\ ~result.data_processed.optical

\* C18: when the optical collector fails, nbr_mean is 0 in the consolidated
\* record, so the engine answers (it does not raise) with the fire-risk alert,
\* without the normal entry and without a stress alert; when all three collectors
\* fail the prescriptions are exactly the fire-risk alert; the run is returned
\* with status 'success'.
C18_OpticalFailureMeansFireAlert ==
    OpticalFailed =>
        /\ consolidated_data.nbr_mean = Some(0)
        /\ consolidated_data.ndvi_series = <<>>
        /\ ~EngineRaises(consolidated_data)
        /\ pc \in {"psf_send", "psf_save", "psf_return"} =>
              /\ FIRE_ALERT \in Range(prescriptions)
              /\ NORMAL_MESSAGE \notin Range(prescriptions)
              /\ ~StressFired
              /\ AllFailed => prescriptions = <<FIRE_ALERT>>
        /\ pc = "psf_return" =>
              /\ result.status = "success"
              /\ result.prescriptions = prescriptions

====
